---- MODULE Spec2Model ----
(***************************************************************************)
(* A model of astrbot_plugin_YumeCard (main.py): the bootstrap of the      *)
(* vendored YumeCard executable (download, SHA-256 gate, extraction), the  *)
(* watchdog handler that debounces image events, the notification fan-out, *)
(* the polling task and the start/stop/restart commands.                   *)
(*                                                                         *)
(* Abstractions.  A SHA-256 digest is a 4-character hex string (the first  *)
(* four characters of the real constants); a file is a record [sha,       *)
(* zipstate, entries] whose sha field is what hashlib computes over its    *)
(* bytes (always lowercase); NoFile and Unreadable are the two records for *)
(* a missing and an unreadable file.  Time is counted in whole seconds.    *)
(***************************************************************************)
EXTENDS Integers, Sequences, FiniteSets, TLC

VARIABLES
    \* ---- platform and filesystem
    platform_system,        \* platform.system()
    zip_file,               \* the file at zip_path / zip_file_path
    dir_exists,             \* extract_dir (= vendor_dir) exists
    dir_files,              \* names of the files under extract_dir
    pre_files,              \* dir_files when unzip_file_sync was entered
    \* ---- unzip_file_sync
    unzip_pc,               \* "idle" | "ready" | "done" (it has returned)
    unzip_ok,               \* its return value
    \* ---- MyPlugin.initialize
    init_pc,                \* "new" | "download" | "unzip" | "done"
    boot_state,             \* "Start" | "Fetch" | "Extract" | "Ready" | "Failed"
    boot_log,               \* what initialize has done so far, in order
    net_calls,              \* GET requests issued
    exe_at_start,           \* the executable existed when initialize began
    main_loop,              \* self.main_loop
    yume_card_executable,   \* self.yume_card_executable
    runNable,               \* self.runNable
    observer,               \* self.observer
    config_json,            \* YumeCard_core/config/config.json
    delayed_pc,             \* _delayed_start_monitoring: "none" | "sleeping" | "done"
    \* ---- start_monitoring tasks and the counters
    repository,             \* config["GitHub"]["repository"]
    tasks,                  \* the start_monitoring tasks of the event loop
    monitoring_task,        \* self.monitoring_task (0: None)
    monitoring_active,      \* self.monitoring_active
    last_check_time,        \* self.last_check_time
    check_count,            \* self.check_count
    error_count,            \* self.error_count
    yumecard_process,       \* self.yumecard_process
    yumecard_running,       \* self.yumecard_running
    spawned,                \* some operation has called create_subprocess_exec
    chmod_called,           \* os.chmod(self.yume_card_executable, 0o755) was called
    \* ---- commands
    restart_pc,             \* _handle_restart_monitor: "idle" | "sleeping"
    restart_out,            \* what it has yielded before its sleep
    reply,                  \* the last finished command and what it yielded
    \* ---- ImageFileHandler
    now,                    \* time.time(), in seconds
    last_processed,         \* ImageFileHandler.last_processed
    events,                 \* the events on_created has handled, with the outcome
    \* ---- notification_targets and the fan-out
    notification_targets,   \* config["GitHub"]["notification_targets"]
    saved_targets,          \* the list as last written by config.save_config()
    image,                  \* the image file: "absent" | "empty" | "data" | "unreadable"
    disp,                   \* the fan-out in progress
    github_config,          \* what self.config holds under "GitHub"
    notify_effects,         \* what the last subscribe / unsubscribe called
    \* ---- the helpers called on their own
    fetch_log,              \* the calls of download_file_async, in order
    raw_repo_list,          \* config["GitHub"]["repository"] as the projector finds it
    projection              \* its run: what it returned and wrote

None == "None"
\* a path that holds no file, and a file that cannot be opened or read
NoFile == [sha |-> <<>>, zipstate |-> "nofile", entries |-> {}]
Unreadable == [sha |-> <<>>, zipstate |-> "unreadable", entries |-> {}]

\* ------------------------------------------------------------------ digests

\* EXPECTED_SHA256_WINDOWS / EXPECTED_SHA256_LINUX, first four characters
EXPECTED_SHA256_WINDOWS == <<"2", "F", "7", "E">>
EXPECTED_SHA256_LINUX == <<"7", "A", "5", "3">>

\* str.upper() on one hexadecimal character
UpperChar(c) ==
    CASE c = "a" -> "A" [] c = "b" -> "B" [] c = "c" -> "C"
      [] c = "d" -> "D" [] c = "e" -> "E" [] c = "f" -> "F"
      [] OTHER -> c

\* str.upper() on a hex string
Upper(s) == [i \in 1..Len(s) |-> UpperChar(s[i])]

\* the hexdigest() values of the archives of the model: the two published
\* packages and two others (one differs from the Linux digest in its last
\* character only)
Digests ==
    { <<"2", "f", "7", "e">>, <<"7", "a", "5", "3">>,
      <<"7", "a", "5", "4">>, <<"0", "0", "0", "0">> }

\* WINDOWS_EXECUTABLE_REL_PATH / LINUX_EXECUTABLE_REL_PATH
WINDOWS_EXECUTABLE_REL_PATH == "YumeCard.exe"
LINUX_EXECUTABLE_REL_PATH == "YumeCard"

FileNames == {WINDOWS_EXECUTABLE_REL_PATH, LINUX_EXECUTABLE_REL_PATH, "README"}

\* the packages a zip path can hold: "ok" extracts fully, "badzip" is refused
\* when opened (zipfile.BadZipFile), "corrupt" fails at some member
Archives ==
    [ sha : Digests,
      zipstate : {"ok", "badzip", "corrupt"},
      entries : {FileNames, {"README"}} ]

Platforms == {"Windows", "Linux", "Darwin"}

\* calculate_sha256_for_zip: lowercase hex digest, None when the file cannot
\* be opened or read
calculate_sha256_for_zip(file) ==
    IF file \in {NoFile, Unreadable} THEN None ELSE file.sha

\* unzip_file_sync, lines 135-142: the expected digest of the platform
target_expected_sha256(current_os) ==
    IF current_os = "Windows" THEN EXPECTED_SHA256_WINDOWS
    ELSE IF current_os = "Linux" THEN EXPECTED_SHA256_LINUX
    ELSE None

\* zipfile.ZipFile(zip_path).extractall(extract_dir): ok is the outcome
extractall(ok) ==
    IF zip_file \in {NoFile, Unreadable} \/ zip_file.zipstate = "badzip"
    THEN /\ ok = FALSE
         /\ dir_files' = dir_files
    ELSE IF zip_file.zipstate = "corrupt"
    THEN /\ ok = FALSE
         /\ \E done \in SUBSET zip_file.entries :
               /\ done # zip_file.entries
               /\ dir_files' = dir_files \cup done
    ELSE /\ ok = TRUE
         /\ dir_files' = dir_files \cup zip_file.entries

\* unzip_file_sync whose digest mismatch is logged but does not return
unzip_file_sync_NoReturnOnMismatch(ok) ==
    /\ dir_exists' = TRUE
    /\ pre_files' = dir_files
    /\ LET expected == target_expected_sha256(platform_system)
           actual == calculate_sha256_for_zip(zip_file)
       IN  IF expected # None /\ actual = None
           THEN ok = FALSE /\ dir_files' = dir_files
           ELSE extractall(ok)

\* unzip_file_sync that refuses an archive it has no digest to check against
unzip_file_sync_RefuseWithoutDigest(ok) ==
    /\ dir_exists' = TRUE
    /\ pre_files' = dir_files
    /\ LET expected == target_expected_sha256(platform_system)
           actual == calculate_sha256_for_zip(zip_file)
       IN  IF expected = None \/ actual = None
           THEN ok = FALSE /\ dir_files' = dir_files
           ELSE IF Upper(actual) # expected
           THEN ok = FALSE /\ dir_files' = dir_files
           ELSE extractall(ok)

\* unzip_file_sync(zip_path, extract_dir) -> ok
unzip_file_sync(ok) ==
    /\ dir_exists' = TRUE
    /\ pre_files' = dir_files
    /\ LET expected == target_expected_sha256(platform_system)
           actual == calculate_sha256_for_zip(zip_file)
       IN  IF expected # None /\ actual = None
           THEN ok = FALSE /\ dir_files' = dir_files
           ELSE IF expected # None /\ Upper(actual) # expected
           THEN ok = FALSE /\ dir_files' = dir_files
           ELSE extractall(ok)

fsVars == <<platform_system, zip_file, dir_exists, dir_files, pre_files>>
unzipVars == <<unzip_pc, unzip_ok>>
bootVars ==
    <<init_pc, boot_state, boot_log, net_calls, exe_at_start, main_loop,
      yume_card_executable, runNable, observer, config_json, delayed_pc>>
counterVars == <<last_check_time, check_count, error_count>>
processVars == <<yumecard_process, yumecard_running>>
monVars ==
    <<repository, tasks, monitoring_task, monitoring_active, counterVars,
      processVars, spawned, chmod_called>>
cmdVars == <<restart_pc, restart_out, reply>>
watchVars == <<now, last_processed, events>>
dispVars ==
    <<notification_targets, saved_targets, image, disp, github_config,
      notify_effects>>
helperVars == <<fetch_log, raw_repo_list, projection>>
sideVars == <<watchVars, dispVars, helperVars>>
vars == <<fsVars, unzipVars, bootVars, monVars, cmdVars, sideVars>>

\* ------------------------------------------------------------ construction

\* bounds of the model
MaxRepos == 2
MaxTasks == 2
MaxCycles == 2

\* the sleep between two repositories of a cycle, line 590
REPO_SPACING_SECONDS == 10

\* interval, the argument of start_monitoring: the configured
\* refresh_interval_seconds, 3600 when there is none (line 431)
refresh_interval_seconds == 3600

TaskIds == 1..MaxTasks

\* a repository entry of the host configuration: a dict or an encoded string,
\* with its owner and repo values
RepoEntries ==
    { [isdict |-> TRUE, owner |-> "octocat", repo |-> "Hello-World"],
      [isdict |-> TRUE, owner |-> "", repo |-> "Hello-World"],
      [isdict |-> FALSE, owner |-> "octocat", repo |-> "Hello-World"] }

RepoLists == UNION { [1..n -> RepoEntries] : n \in 0..MaxRepos }

\* a start_monitoring task: where it is, the entry it is at, whether cancel()
\* was called on it, what its current cycle has done, and the entries whose
\* check has returned False in this cycle
NoTask ==
    [pc |-> "none", idx |-> 0, cancel |-> FALSE, log |-> <<>>, failed |-> {}]

NoReply == [cmd |-> "none", out |-> <<>>]

\* MyPlugin.__init__: the fields of a new plugin object
PluginConstructed ==
    /\ init_pc = "new"
    /\ boot_state = "Start"
    /\ boot_log = <<>>
    /\ net_calls = 0
    /\ exe_at_start = FALSE
    /\ main_loop = None
    /\ yume_card_executable = None
    /\ runNable = FALSE
    /\ observer = None
    /\ config_json = "absent"
    /\ delayed_pc = "none"
    /\ tasks = [t \in TaskIds |-> NoTask]
    /\ monitoring_task = 0
    /\ monitoring_active = FALSE
    /\ last_check_time = None
    /\ check_count = 0
    /\ error_count = 0
    /\ yumecard_process = None
    /\ yumecard_running = FALSE
    /\ spawned = FALSE
    /\ chmod_called = FALSE
    /\ restart_pc = "idle"
    /\ restart_out = <<>>
    /\ reply = NoReply

\* --------------------------------------------------------------- initialize

Supported == platform_system \in {"Windows", "Linux"}

\* initialize, lines 334-353: the executable expected on this platform
potential_executable_path ==
    IF platform_system = "Windows" THEN WINDOWS_EXECUTABLE_REL_PATH
    ELSE LINUX_EXECUTABLE_REL_PATH

\* a download interrupted in mid-stream leaves a truncated file
PartialFile ==
    [sha |-> <<"0", "0", "0", "0">>, zipstate |-> "badzip", entries |-> {"README"}]

\* download_file_async without the test of line 63
download_file_async_NoExistsCheck(got) ==
    /\ net_calls' = net_calls + 1
    /\ \/ /\ got = TRUE
          /\ zip_file' \in Archives
       \/ /\ got = FALSE
          /\ zip_file' \in {zip_file, PartialFile}

\* download_file_async(url, save_dir, file_name) -> got (TRUE: the path,
\* FALSE: None)
download_file_async(got) ==
    IF zip_file # NoFile
    THEN /\ got = TRUE
         /\ UNCHANGED <<zip_file, net_calls>>
    ELSE /\ net_calls' = net_calls + 1
         /\ \/ /\ got = TRUE
               /\ zip_file' \in Archives
            \/ /\ got = FALSE
               /\ zip_file' \in {NoFile, PartialFile}

\* initialize, lines 396-415, with the config projector run before the file
\* watcher is started replaced by one run after it
initialize_finish_WatcherFirst(executable) ==
    /\ init_pc' = "done"
    /\ yume_card_executable' = executable
    /\ boot_state' = IF executable # None THEN "Ready" ELSE "Failed"
    /\ IF executable # None
       THEN /\ runNable' = TRUE
            /\ observer' = "alive"
            /\ delayed_pc' = "sleeping"
            /\ config_json' = "written"
            /\ boot_log' = boot_log \o <<"Ready", "watcher", "project", "delayed">>
       ELSE /\ config_json' = "written"
            /\ boot_log' = boot_log \o <<"Failed", "project">>
            /\ UNCHANGED <<runNable, observer, delayed_pc>>

\* initialize, lines 396-415: the config projector, then on a usable
\* executable runNable, _start_file_watcher and _start_delayed_monitoring
initialize_finish(executable) ==
    /\ init_pc' = "done"
    /\ yume_card_executable' = executable
    /\ boot_state' = IF executable # None THEN "Ready" ELSE "Failed"
    /\ config_json' = IF dir_exists' THEN "written" ELSE config_json
    /\ IF executable # None
       THEN /\ runNable' = TRUE
            /\ observer' = "alive"
            /\ delayed_pc' = IF main_loop' # None THEN "sleeping" ELSE delayed_pc
            /\ boot_log' = boot_log
                   \o <<"Ready">>
                   \o (IF dir_exists' THEN <<"project">> ELSE <<>>)
                   \o <<"watcher">>
                   \o (IF main_loop' # None THEN <<"delayed">> ELSE <<>>)
       ELSE /\ boot_log' = boot_log
                   \o <<"Failed">>
                   \o (IF dir_exists' THEN <<"project">> ELSE <<>>)
            /\ UNCHANGED <<runNable, observer, delayed_pc>>

\* initialize with the check for an installed executable left out
InitializeStart_AlwaysInstall ==
    /\ UNCHANGED sideVars
    /\ init_pc = "new"
    /\ main_loop' = "open"
    /\ dir_exists' = TRUE
    /\ exe_at_start' = (potential_executable_path \in dir_files)
    /\ Supported
    /\ init_pc' = "download"
    /\ boot_state' = "Fetch"
    /\ UNCHANGED <<yume_card_executable, runNable, observer, config_json,
                   delayed_pc, boot_log>>
    /\ UNCHANGED <<platform_system, zip_file, dir_files, pre_files, net_calls,
                   unzipVars, monVars, cmdVars>>

\* initialize, lines 321-372: up to its first suspension
InitializeStart ==
    /\ UNCHANGED sideVars
    /\ init_pc = "new"
    /\ main_loop' = "open"
    /\ dir_exists' = TRUE
    /\ exe_at_start' = (potential_executable_path \in dir_files)
    /\ IF ~Supported
       THEN \* line 347: return
            /\ init_pc' = "done"
            /\ boot_state' = "Failed"
            /\ boot_log' = boot_log \o <<"Failed">>
            /\ UNCHANGED <<yume_card_executable, runNable, observer,
                           config_json, delayed_pc, unzipVars>>
       ELSE IF potential_executable_path \in dir_files
       THEN /\ initialize_finish(potential_executable_path)
            /\ UNCHANGED unzipVars
       ELSE IF zip_file # NoFile
       THEN \* line 366: the archive is there, run_in_executor(unzip_file_sync)
            /\ init_pc' = "unzip"
            /\ boot_state' = "Extract"
            /\ unzip_pc' = "ready"
            /\ UNCHANGED <<yume_card_executable, runNable, observer,
                           config_json, delayed_pc, boot_log, unzip_ok>>
       ELSE /\ init_pc' = "download"
            /\ boot_state' = "Fetch"
            /\ UNCHANGED <<yume_card_executable, runNable, observer,
                           config_json, delayed_pc, boot_log, unzipVars>>
    /\ UNCHANGED <<platform_system, zip_file, dir_files, pre_files, net_calls,
                   monVars, cmdVars>>

\* initialize, lines 372-383: download_file_async has returned
DownloadDone ==
    /\ UNCHANGED sideVars
    /\ init_pc = "download"
    /\ UNCHANGED <<platform_system, dir_exists, dir_files, pre_files,
                   exe_at_start, main_loop, monVars, cmdVars>>
    /\ \E got \in BOOLEAN :
          /\ download_file_async(got)
          /\ IF got
             THEN /\ init_pc' = "unzip"
                  /\ boot_state' = "Extract"
                  /\ unzip_pc' = "ready"
                  /\ UNCHANGED <<yume_card_executable, runNable, observer,
                                 config_json, delayed_pc, boot_log, unzip_ok>>
             ELSE /\ initialize_finish(None)
                  /\ UNCHANGED unzipVars

\* initialize, lines 383-415: unzip_file_sync has returned from the executor
UnzipDone ==
    /\ UNCHANGED sideVars
    /\ init_pc = "unzip"
    /\ unzip_pc = "ready"
    /\ UNCHANGED <<platform_system, zip_file, net_calls, exe_at_start,
                   main_loop, monVars, cmdVars>>
    /\ \E ok \in BOOLEAN :
          /\ unzip_file_sync(ok)
          /\ unzip_ok' = ok
          /\ unzip_pc' = "done"
          /\ IF ok /\ potential_executable_path \in dir_files'
             THEN initialize_finish(potential_executable_path)
             ELSE initialize_finish(None)

\* ------------------------------------------------- the start_monitoring task

TaskDone(t) == tasks[t].pc \in {"returned", "cancelled"}

TaskActive(t) == tasks[t].pc \notin {"none", "returned", "cancelled"}

\* the first index from i on that holds a dict, Len + 1 when there is none
\* (line 580: other entries are passed over without a sleep)
NextDictIndex(i) ==
    IF \E j \in i..Len(repository) : repository[j].isdict
    THEN CHOOSE j \in i..Len(repository) :
            /\ repository[j].isdict
            /\ \A k \in i..(j - 1) : ~repository[k].isdict
    ELSE Len(repository) + 1

\* start_monitoring in which a failed check ends the cycle
continue_cycle_StopOnFailure(t, i, log, fails) ==
    LET j == NextDictIndex(i)
        entry == repository[j]
        checked == Append(log, <<"check", j>>)
        slept(l) == Append(l, <<"sleep", REPO_SPACING_SECONDS>>)
        interval_sleep(l) == Append(l, <<"sleep", refresh_interval_seconds>>)
    IN  IF j > Len(repository)
        THEN /\ tasks' = [tasks EXCEPT ![t].pc = "interval", ![t].idx = j,
                                       ![t].log = interval_sleep(log),
                                       ![t].failed = fails]
             /\ UNCHANGED <<error_count, spawned, chmod_called>>
        ELSE IF entry.owner # "" /\ entry.repo # ""
        THEN IF ~runNable \/ yume_card_executable = None
             THEN /\ error_count' = error_count + 1
                  /\ tasks' = [tasks EXCEPT ![t].pc = "interval", ![t].idx = j,
                                            ![t].log = interval_sleep(checked),
                                            ![t].failed = fails \cup {j}]
                  /\ UNCHANGED <<spawned, chmod_called>>
             ELSE /\ spawned' = TRUE
                  /\ chmod_called' = (chmod_called \/ platform_system = "Linux")
                  /\ \E started \in BOOLEAN :
                        IF started
                        THEN /\ tasks' = [tasks EXCEPT ![t].pc = "inflight",
                                             ![t].idx = j, ![t].log = checked,
                                             ![t].failed = fails]
                             /\ UNCHANGED error_count
                        ELSE /\ error_count' = error_count + 1
                             /\ tasks' = [tasks EXCEPT ![t].pc = "interval",
                                             ![t].idx = j,
                                             ![t].log = interval_sleep(checked),
                                             ![t].failed = fails \cup {j}]
        ELSE /\ tasks' = [tasks EXCEPT ![t].pc = "spacing", ![t].idx = j,
                                       ![t].log = slept(log),
                                       ![t].failed = fails]
             /\ UNCHANGED <<error_count, spawned, chmod_called>>

\* start_monitoring, lines 579-597, from entry i of the repository list up to
\* the next suspension (the subprocess of check_repository_updates, lines
\* 463-491, started after the chmod of lines 474-475, the sleep between
\* repositories or the sleep of the interval); log is what the cycle has done
\* so far and fails the entries whose check has failed in it
continue_cycle(t, i, log, fails) ==
    LET j == NextDictIndex(i)
        entry == repository[j]
        checked == Append(log, <<"check", j>>)
        slept(l) == Append(l, <<"sleep", REPO_SPACING_SECONDS>>)
        interval_sleep(l) == Append(l, <<"sleep", refresh_interval_seconds>>)
    IN  IF j > Len(repository)
        THEN /\ tasks' = [tasks EXCEPT ![t].pc = "interval", ![t].idx = j,
                                       ![t].log = interval_sleep(log),
                                       ![t].failed = fails]
             /\ UNCHANGED <<error_count, spawned, chmod_called>>
        ELSE IF entry.owner # "" /\ entry.repo # ""
        THEN IF ~runNable \/ yume_card_executable = None
             THEN \* check_repository_updates returns False at once
                  /\ error_count' = error_count + 1
                  /\ tasks' = [tasks EXCEPT ![t].pc = "spacing", ![t].idx = j,
                                            ![t].log = slept(checked),
                                            ![t].failed = fails \cup {j}]
                  /\ UNCHANGED <<spawned, chmod_called>>
             ELSE \* create_subprocess_exec: it starts the process or raises
                  /\ spawned' = TRUE
                  /\ chmod_called' = (chmod_called \/ platform_system = "Linux")
                  /\ \E started \in BOOLEAN :
                        IF started
                        THEN /\ tasks' = [tasks EXCEPT ![t].pc = "inflight",
                                             ![t].idx = j, ![t].log = checked,
                                             ![t].failed = fails]
                             /\ UNCHANGED error_count
                        ELSE /\ error_count' = error_count + 1
                             /\ tasks' = [tasks EXCEPT ![t].pc = "spacing",
                                             ![t].idx = j,
                                             ![t].log = slept(checked),
                                             ![t].failed = fails \cup {j}]
        ELSE /\ tasks' = [tasks EXCEPT ![t].pc = "spacing", ![t].idx = j,
                                       ![t].log = slept(log),
                                       ![t].failed = fails]
             /\ UNCHANGED <<error_count, spawned, chmod_called>>

\* start_monitoring, lines 571-577: the top of a cycle
begin_cycle(t) ==
    /\ check_count < MaxCycles
    /\ last_check_time' = "time"
    /\ check_count' = check_count + 1
    /\ continue_cycle(t, 1, <<>>, {})

\* _delayed_start_monitoring, lines 426-436: its sleep of 10 seconds is over
DelayedStartFire ==
    /\ UNCHANGED sideVars
    /\ delayed_pc = "sleeping"
    /\ delayed_pc' = "done"
    /\ IF runNable
       THEN \E t \in TaskIds :
               /\ tasks[t].pc = "none"
               /\ \A u \in TaskIds : u < t => tasks[u].pc # "none"
               /\ tasks' = [tasks EXCEPT ![t] = [NoTask EXCEPT !.pc = "created"]]
               /\ monitoring_task' = t
               /\ monitoring_active' = TRUE
               /\ boot_log' = Append(boot_log, "scheduler")
       ELSE UNCHANGED <<tasks, monitoring_task, monitoring_active, boot_log>>
    /\ UNCHANGED <<fsVars, unzipVars, init_pc, boot_state, net_calls,
                   exe_at_start, main_loop, yume_card_executable, runNable,
                   observer, config_json, repository, counterVars,
                   processVars, spawned, chmod_called, cmdVars>>

\* start_monitoring, lines 559-590: the first step of the task
TaskRun(t) ==
    /\ UNCHANGED sideVars
    /\ tasks[t].pc = "created"
    /\ ~tasks[t].cancel
    /\ IF ~runNable
       THEN /\ tasks' = [tasks EXCEPT ![t].pc = "returned"]
            /\ UNCHANGED <<monitoring_active, counterVars, spawned, chmod_called>>
       ELSE /\ monitoring_active' = TRUE
            /\ begin_cycle(t)
    /\ UNCHANGED <<fsVars, unzipVars, bootVars, repository, monitoring_task,
                   processVars, cmdVars>>

\* check_repository_updates, lines 491-502, and start_monitoring, lines
\* 585-590: the subprocess has exited, with status 0 or not
CheckDone(t) ==
    /\ UNCHANGED sideVars
    /\ tasks[t].pc = "inflight"
    /\ ~tasks[t].cancel
    /\ \E success \in BOOLEAN :
          /\ error_count' = IF success THEN error_count ELSE error_count + 1
          /\ tasks' = [tasks EXCEPT
                          ![t].pc = "spacing",
                          ![t].log = Append(@, <<"sleep", REPO_SPACING_SECONDS>>),
                          ![t].failed = IF success THEN @ ELSE @ \cup {tasks[t].idx}]
    /\ UNCHANGED <<fsVars, unzipVars, bootVars, repository, monitoring_task,
                   monitoring_active, last_check_time, check_count,
                   processVars, spawned, chmod_called, cmdVars>>

\* start_monitoring, line 590: the sleep between two repositories is over
SpacingDone(t) ==
    /\ UNCHANGED sideVars
    /\ tasks[t].pc = "spacing"
    /\ ~tasks[t].cancel
    /\ continue_cycle(t, tasks[t].idx + 1, tasks[t].log, tasks[t].failed)
    /\ UNCHANGED <<fsVars, unzipVars, bootVars, repository, monitoring_task,
                   monitoring_active, last_check_time, check_count,
                   processVars, cmdVars>>

\* start_monitoring, lines 597 and 571: the sleep of the interval is over
IntervalDone(t) ==
    /\ UNCHANGED sideVars
    /\ tasks[t].pc = "interval"
    /\ ~tasks[t].cancel
    /\ IF monitoring_active
       THEN begin_cycle(t)
       ELSE /\ tasks' = [tasks EXCEPT ![t].pc = "returned"]
            /\ UNCHANGED <<counterVars, spawned, chmod_called>>
    /\ UNCHANGED <<fsVars, unzipVars, bootVars, repository, monitoring_task,
                   monitoring_active, processVars, cmdVars>>

\* Task.cancel(), line 742: CancelledError is raised in the task at the await
\* it is suspended in (it is no Exception, lines 500 and 592 let it pass); a
\* task that has not run yet never runs
CancelDelivered(t) ==
    /\ UNCHANGED sideVars
    /\ TaskActive(t)
    /\ tasks[t].cancel
    /\ tasks' = [tasks EXCEPT ![t].pc = "cancelled"]
    /\ UNCHANGED <<fsVars, unzipVars, bootVars, repository, monitoring_task,
                   monitoring_active, counterVars, processVars, spawned, chmod_called,
                   cmdVars>>

\* ----------------------------------------------------------------- commands

\* self.yumecard_process and self.yumecard_process.returncode is None
ProcessLive == yumecard_process = "live"

\* _handle_stop_monitor that clears the flag and does not cancel the task
stop_monitor_FlagOnly(result) ==
    LET poll == monitoring_task # 0 /\ ~TaskDone(monitoring_task)
    IN  /\ IF ProcessLive
           THEN yumecard_process' = None /\ yumecard_running' = FALSE
           ELSE UNCHANGED processVars
        /\ IF poll
           THEN /\ monitoring_active' = FALSE
                /\ UNCHANGED tasks
           ELSE UNCHANGED <<monitoring_active, tasks>>
        /\ result = IF ProcessLive \/ poll THEN "stopped" ELSE "not_running"

\* _handle_stop_monitor, lines 720-748 -> what it yields.  terminate() and
\* the wait of at most 5 seconds, kill() on timeout: both paths drop the handle
stop_monitor(result) ==
    LET poll == monitoring_task # 0 /\ ~TaskDone(monitoring_task)
    IN  /\ IF ProcessLive
           THEN yumecard_process' = None /\ yumecard_running' = FALSE
           ELSE UNCHANGED processVars
        /\ IF poll
           THEN /\ monitoring_active' = FALSE
                /\ tasks' = [tasks EXCEPT ![monitoring_task].cancel = TRUE]
           ELSE UNCHANGED <<monitoring_active, tasks>>
        /\ result = IF ProcessLive \/ poll THEN "stopped" ELSE "not_running"

\* _handle_start_monitor that starts a start_monitoring task of its own
start_monitor_NewPollTask(result) ==
    IF ~runNable
    THEN /\ result = "not_ready"
         /\ UNCHANGED <<tasks, monitoring_task, monitoring_active>>
    ELSE \E t \in TaskIds :
            /\ tasks[t].pc = "none"
            /\ \A u \in TaskIds : u < t => tasks[u].pc # "none"
            /\ tasks' = [tasks EXCEPT ![t] = [NoTask EXCEPT !.pc = "created"]]
            /\ monitoring_task' = t
            /\ monitoring_active' = TRUE
            /\ result = "started"

\* _handle_start_monitor, lines 696-718, under yumecard_main_command, lines
\* 606-608 and 647-649 -> what is yielded.  MyPlugin defines no
\* start_yumecard_monitor_mode: line 711 raises AttributeError, which
\* yumecard_main_command catches and reports
start_monitor(result) ==
    /\ result = IF ~runNable THEN "not_ready"
                ELSE IF yumecard_running /\ ProcessLive THEN "already_running"
                ELSE "operation_failed"
    /\ UNCHANGED <<tasks, monitoring_task, monitoring_active>>

\* /yumecard start
CmdStart ==
    /\ UNCHANGED sideVars
    /\ \E result \in {"not_ready", "already_running", "started",
                      "operation_failed"} :
          /\ start_monitor(result)
          /\ reply' = [cmd |-> "start", out |-> <<result>>]
    /\ UNCHANGED <<fsVars, unzipVars, bootVars, repository, counterVars,
                   processVars, spawned, chmod_called, restart_pc, restart_out>>

\* /yumecard stop
CmdStop ==
    /\ UNCHANGED sideVars
    /\ \E result \in {"stopped", "not_running"} :
          /\ stop_monitor(result)
          /\ reply' = [cmd |-> "stop", out |-> <<result>>]
    /\ UNCHANGED <<fsVars, unzipVars, bootVars, repository, monitoring_task,
                   counterVars, spawned, chmod_called, restart_pc, restart_out>>

\* /yumecard restart, lines 750-755: the stop, up to the sleep of 1 second
CmdRestart ==
    /\ UNCHANGED sideVars
    /\ restart_pc = "idle"
    /\ \E result \in {"stopped", "not_running"} :
          /\ stop_monitor(result)
          /\ restart_out' = <<result>>
    /\ restart_pc' = "sleeping"
    /\ UNCHANGED <<fsVars, unzipVars, bootVars, repository, monitoring_task,
                   counterVars, spawned, chmod_called, reply>>

\* /yumecard restart, lines 757-764: the counters are reset and the start is
\* run.  The cancellation of line 742 is delivered on the next turn of the
\* event loop, before a timer of 1 second fires
RestartResume ==
    /\ UNCHANGED sideVars
    /\ restart_pc = "sleeping"
    /\ \A t \in TaskIds : ~(TaskActive(t) /\ tasks[t].cancel)
    /\ check_count' = 0
    /\ error_count' = 0
    /\ last_check_time' = None
    /\ \E result \in {"not_ready", "already_running", "started",
                      "operation_failed"} :
          /\ start_monitor(result)
          /\ reply' = [cmd |-> "restart", out |-> Append(restart_out, result)]
    /\ restart_pc' = "idle"
    /\ restart_out' = <<>>
    /\ UNCHANGED <<fsVars, unzipVars, bootVars, repository, processVars,
                   spawned, chmod_called>>

\* /yumecard_manage whose handlers do not test runNable
CmdManage_NoReadyCheck(op) ==
    /\ UNCHANGED sideVars
    /\ spawned' = TRUE
    /\ UNCHANGED chmod_called
    /\ \E outcome \in {"raised", "exit0", "exit1"} :
          /\ reply' = [cmd |-> op,
                       out |-> <<CASE outcome = "raised" -> "operation_failed"
                                   [] outcome = "exit0" -> "succeeded"
                                   [] OTHER -> "failed">>]
          /\ config_json' = IF op = "add" /\ outcome = "exit0"
                            THEN "written" ELSE config_json
    /\ UNCHANGED <<fsVars, unzipVars, init_pc, boot_state, boot_log, net_calls,
                   exe_at_start, main_loop, yume_card_executable, runNable,
                   observer, delayed_pc, repository, tasks, monitoring_task,
                   monitoring_active, counterVars, processVars, restart_pc,
                   restart_out>>

\* /yumecard_manage list | add | check, lines 934-1004: one run of the
\* executable to completion; a successful add re-projects the configuration
CmdManage(op) ==
    /\ UNCHANGED sideVars
    /\ IF ~runNable
       THEN /\ reply' = [cmd |-> op, out |-> <<"not_ready">>]
            /\ UNCHANGED <<spawned, chmod_called, config_json>>
       ELSE /\ spawned' = TRUE
            /\ UNCHANGED chmod_called
            /\ \E outcome \in {"raised", "exit0", "exit1"} :
                  /\ reply' = [cmd |-> op,
                               out |-> <<CASE outcome = "raised" -> "operation_failed"
                                           [] outcome = "exit0" -> "succeeded"
                                           [] OTHER -> "failed">>]
                  /\ config_json' = IF op = "add" /\ outcome = "exit0"
                                    THEN "written" ELSE config_json
    /\ UNCHANGED <<fsVars, unzipVars, init_pc, boot_state, boot_log, net_calls,
                   exe_at_start, main_loop, yume_card_executable, runNable,
                   observer, delayed_pc, repository, tasks, monitoring_task,
                   monitoring_active, counterVars, processVars, restart_pc,
                   restart_out>>

\* ------------------------------------------------------- ImageFileHandler

\* bounds of the watcher's model
MaxTime == 7
MaxEvents == 3

\* on_created, line 195: the window in which a path is not handled again
DEBOUNCE_SECONDS == 5

\* event.src_path: a stem and the extension as it is spelled
Paths ==
    { [stem |-> "Style/a", ext |-> ".png"],
      [stem |-> "Style/b", ext |-> ".PNG"],
      [stem |-> "Style/c", ext |-> ".txt"] }

\* str.lower() on an extension
LowerExt(ext) == IF ext = ".PNG" THEN ".png" ELSE ext

NoDispatch ==
    [pc |-> "idle", kind |-> "none", i |-> 0, cur |-> None,
     success_count |-> 0, attempts |-> <<>>, targets0 |-> <<>>,
     mutations |-> 0, report |-> [text |-> "none", succ |-> 0, total |-> 0]]

\* the projector has not been run on its own
NoProjection ==
    [called |-> FALSE, returned |-> FALSE, writable |-> FALSE,
     repository |-> <<>>]

\* no helper has been called on its own
HelpersIdle ==
    /\ fetch_log = <<>>
    /\ raw_repo_list = [present |-> TRUE, islist |-> TRUE, items |-> <<>>]
    /\ projection = NoProjection

\* ImageFileHandler.__init__ and a registry nothing is dispatched from
SideIdle ==
    /\ now = 0
    /\ last_processed = [p \in {} |-> 0]
    /\ events = <<>>
    /\ notification_targets = <<>>
    /\ saved_targets = <<>>
    /\ image = "absent"
    /\ disp = NoDispatch
    /\ github_config = "full"
    /\ notify_effects = <<>>
    /\ HelpersIdle

\* the plugin after initialize has found YumeCard installed (InitializeStart
\* from Init on Linux)
PluginReady ==
    /\ platform_system = "Linux"
    /\ zip_file = NoFile
    /\ dir_exists = TRUE
    /\ dir_files = FileNames
    /\ pre_files = dir_files
    /\ unzip_pc = "idle"
    /\ unzip_ok = FALSE
    /\ init_pc = "done"
    /\ boot_state = "Ready"
    /\ boot_log = <<"Ready", "project", "watcher", "delayed">>
    /\ net_calls = 0
    /\ exe_at_start = TRUE
    /\ main_loop = "open"
    /\ yume_card_executable = LINUX_EXECUTABLE_REL_PATH
    /\ runNable = TRUE
    /\ observer = "alive"
    /\ config_json = "written"
    /\ delayed_pc = "sleeping"
    /\ repository = <<>>
    /\ tasks = [t \in TaskIds |-> NoTask]
    /\ monitoring_task = 0
    /\ monitoring_active = FALSE
    /\ last_check_time = None
    /\ check_count = 0
    /\ error_count = 0
    /\ yumecard_process = None
    /\ yumecard_running = FALSE
    /\ spawned = FALSE
    /\ chmod_called = FALSE
    /\ restart_pc = "idle"
    /\ restart_out = <<>>
    /\ reply = NoReply

\* d[key] = value on a dict
DictSet(d, key, value) ==
    [k \in DOMAIN d \cup {key} |-> IF k = key THEN value ELSE d[k]]

\* on_created in which an event inside the window restarts the window
on_created_WindowRestarts(file_path, is_directory) ==
    IF is_directory \/ LowerExt(file_path.ext) # ".png"
    THEN /\ events' = Append(events, [path |-> file_path, at |-> now,
                                      dir |-> is_directory, handed |-> FALSE])
         /\ UNCHANGED last_processed
    ELSE /\ last_processed' = DictSet(last_processed, file_path, now)
         /\ events' = Append(events,
                [path |-> file_path, at |-> now, dir |-> is_directory,
                 handed |-> /\ ~ (/\ file_path \in DOMAIN last_processed
                                  /\ now - last_processed[file_path] < DEBOUNCE_SECONDS)
                            /\ main_loop = "open"])

\* ImageFileHandler.on_created, lines 185-214; handed: the coroutine
\* send_commit_notification(file_path) was submitted to the main loop
on_created(file_path, is_directory) ==
    IF is_directory \/ LowerExt(file_path.ext) # ".png"
    THEN /\ events' = Append(events, [path |-> file_path, at |-> now,
                                      dir |-> is_directory, handed |-> FALSE])
         /\ UNCHANGED last_processed
    ELSE IF /\ file_path \in DOMAIN last_processed
            /\ now - last_processed[file_path] < DEBOUNCE_SECONDS
    THEN /\ events' = Append(events, [path |-> file_path, at |-> now,
                                      dir |-> is_directory, handed |-> FALSE])
         /\ UNCHANGED last_processed
    ELSE /\ last_processed' = DictSet(last_processed, file_path, now)
         /\ events' = Append(events, [path |-> file_path, at |-> now,
                                      dir |-> is_directory,
                                      handed |-> (main_loop = "open")])

\* the observer's thread delivers a creation event
OnCreated ==
    /\ observer = "alive"
    /\ Len(events) < MaxEvents
    /\ \E file_path \in Paths, is_directory \in BOOLEAN :
          on_created(file_path, is_directory)
    /\ UNCHANGED <<now, fsVars, unzipVars, bootVars, monVars, cmdVars, dispVars,
                   helperVars>>

\* a second passes
Tick ==
    /\ now < MaxTime
    /\ now' = now + 1
    /\ UNCHANGED <<last_processed, events, fsVars, unzipVars, bootVars,
                   monVars, cmdVars, dispVars, helperVars>>

InitWatcher ==
    /\ PluginReady
    /\ now = 0
    /\ last_processed = [p \in {} |-> 0]
    /\ events = <<>>
    /\ notification_targets = <<>>
    /\ saved_targets = <<>>
    /\ image = "absent"
    /\ disp = NoDispatch
    /\ github_config = "full"
    /\ notify_effects = <<>>
    /\ HelpersIdle

NextWatcher == OnCreated \/ Tick

SpecWatcher == InitWatcher /\ [][NextWatcher]_vars

\* ------------------------------------------- notification targets, fan-out

\* registry changes followed while one fan-out is sending
MaxMutations == 1

\* event.unified_msg_origin of the conversations of the model
Dests == {"qq:GroupMessage:1", "qq:FriendMessage:2", "tg:GroupMessage:3"}

\* the lists without a repeated destination
TargetLists ==
    { l \in UNION { [1..n -> Dests] : n \in 0..Cardinality(Dests) } :
        \A a, b \in 1..Len(l) : a # b => l[a] # l[b] }

\* list.remove(x): the first occurrence is taken out
ListRemove(l, x) ==
    LET at == CHOOSE a \in 1..Len(l) : l[a] = x /\ \A b \in 1..(a - 1) : l[b] # x
    IN  [k \in 1..(Len(l) - 1) |-> IF k < at THEN l[k] ELSE l[k + 1]]

InList(x, l) == \E a \in 1..Len(l) : l[a] = x

\* lines 551-554 and 844: what the fan-out reports at its end
fan_out_report(kind, success_count) ==
    IF kind = "commit" /\ success_count = 0
    THEN [text |-> "none_sent", succ |-> 0, total |-> 0]
    ELSE [text |-> "count", succ |-> success_count,
          total |-> Len(notification_targets)]

\* lines 538-539 and 831-832: the loop over the list is entered
enter_loop(kind) ==
    disp' = [pc |-> "sending", kind |-> kind, i |-> 1,
             cur |-> notification_targets[1], success_count |-> 0,
             attempts |-> <<>>, targets0 |-> notification_targets,
             mutations |-> 0, report |-> NoDispatch.report]

\* a return before the loop: lines 507-509, 518-533, 819-821
ended(kind, text) ==
    disp' = [NoDispatch EXCEPT !.pc = "done", !.kind = kind,
                               !.report = [text |-> text, succ |-> 0, total |-> 0]]

\* the loop in which a delivery that raises ends the fan-out
send_returned_AbortOnFailure(ok) ==
    LET count == IF ok THEN disp.success_count + 1 ELSE disp.success_count
        tried == Append(disp.attempts, [target |-> disp.cur, ok |-> ok])
    IN  IF ok /\ disp.i < Len(notification_targets)
        THEN disp' = [disp EXCEPT !.success_count = count, !.attempts = tried,
                                  !.i = disp.i + 1,
                                  !.cur = notification_targets[disp.i + 1]]
        ELSE disp' = [disp EXCEPT !.success_count = count, !.attempts = tried,
                                  !.pc = "done",
                                  !.report = fan_out_report(disp.kind, count)]

\* send_commit_notification, lines 539-554, and _handle_test_notification,
\* lines 832-848: context.send_message has returned (ok) or raised, and the
\* for statement takes the next element of the list, if there is one
send_returned(ok) ==
    LET count == IF ok THEN disp.success_count + 1 ELSE disp.success_count
        tried == Append(disp.attempts, [target |-> disp.cur, ok |-> ok])
    IN  IF disp.i < Len(notification_targets)
        THEN disp' = [disp EXCEPT !.success_count = count, !.attempts = tried,
                                  !.i = disp.i + 1,
                                  !.cur = notification_targets[disp.i + 1]]
        ELSE disp' = [disp EXCEPT !.success_count = count, !.attempts = tried,
                                  !.pc = "done",
                                  !.report = fan_out_report(disp.kind, count)]

\* send_commit_notification, lines 504-512: the watcher's coroutine starts
CommitNotificationStart ==
    /\ disp.pc \in {"idle", "done"}
    /\ IF image = "absent"
       THEN ended("commit", "no_file")
       ELSE disp' = [NoDispatch EXCEPT !.pc = "grace", !.kind = "commit"]
    /\ UNCHANGED <<notification_targets, saved_targets, image, github_config,
                   notify_effects, watchVars, helperVars,
                   fsVars, unzipVars, bootVars, monVars, cmdVars>>

\* send_commit_notification without the test of the size, lines 518-521
GraceOver_NoSizeTest ==
    /\ disp.pc = "grace"
    /\ IF image \notin {"data", "empty"}
       THEN ended("commit", "unreadable")
       ELSE IF Len(notification_targets) = 0
       THEN ended("commit", "no_targets")
       ELSE enter_loop("commit")
    /\ UNCHANGED <<notification_targets, saved_targets, image, github_config,
                   notify_effects, watchVars, helperVars,
                   fsVars, unzipVars, bootVars, monVars, cmdVars>>

\* send_commit_notification, lines 512-545: the 2 seconds are over
GraceOver ==
    /\ disp.pc = "grace"
    /\ IF image # "data"
       THEN ended("commit", IF image = "empty" THEN "empty" ELSE "unreadable")
       ELSE IF Len(notification_targets) = 0
       THEN ended("commit", "no_targets")
       ELSE enter_loop("commit")
    /\ UNCHANGED <<notification_targets, saved_targets, image, github_config,
                   notify_effects, watchVars, helperVars,
                   fsVars, unzipVars, bootVars, monVars, cmdVars>>

\* /yumecard test, lines 814-839
TestNotificationStart ==
    /\ disp.pc \in {"idle", "done"}
    /\ IF Len(notification_targets) = 0
       THEN ended("test", "no_targets")
       ELSE enter_loop("test")
    /\ UNCHANGED <<notification_targets, saved_targets, image, github_config,
                   notify_effects, watchVars, helperVars,
                   fsVars, unzipVars, bootVars, monVars, cmdVars>>

\* a delivery of the loop ends
SendReturned ==
    /\ disp.pc = "sending"
    /\ \E ok \in BOOLEAN : send_returned(ok)
    /\ UNCHANGED <<notification_targets, saved_targets, image, github_config,
                   notify_effects, watchVars, helperVars,
                   fsVars, unzipVars, bootVars, monVars, cmdVars>>

\* YumeCard finishes writing the image
ImageWritten ==
    /\ image = "empty"
    /\ image' = "data"
    /\ UNCHANGED <<notification_targets, saved_targets, disp, github_config,
                   notify_effects, watchVars, helperVars,
                   fsVars, unzipVars, bootVars, monVars, cmdVars>>

\* a change of the list while the fan-out is in its loop is counted
registry_changed ==
    disp' = IF disp.pc = "sending" /\ notification_targets' # notification_targets
            THEN [disp EXCEPT !.mutations = disp.mutations + 1]
            ELSE disp

\* self.config.get("GitHub", {}).get("notification_targets", []) after
\* targets.append / targets.remove and the store of line 1083 / 1101: without
\* a "GitHub" entry both gets return new objects that the configuration does
\* not hold, and the change is lost with them
store_targets(targets) ==
    IF github_config = "no_github"
    THEN UNCHANGED <<notification_targets, github_config>>
    ELSE /\ notification_targets' = targets
         /\ github_config' = "full"

\* the two calls of lines 1084-1085 in the other order
save_and_project_ProjectFirst ==
    /\ saved_targets' = notification_targets'
    /\ config_json' = IF github_config' = "no_github" THEN config_json
                      ELSE "written"
    /\ notify_effects' = <<"project", "save_config">>

\* lines 1084-1085 and 1102-1103: config.save_config(), then the projector,
\* which writes config.json unless the configuration has no "GitHub" entry
\* (lines 264-269)
save_and_project ==
    /\ saved_targets' = notification_targets'
    /\ config_json' = IF github_config' = "no_github" THEN config_json
                      ELSE "written"
    /\ notify_effects' = <<"save_config", "project">>

\* _handle_subscribe without the test of line 1078
CmdSubscribe_NoMembershipTest(target) ==
    /\ disp.pc = "sending" => disp.mutations < MaxMutations
    /\ store_targets(Append(notification_targets, target))
    /\ save_and_project
    /\ reply' = [cmd |-> "subscribe", out |-> <<"subscribed">>]
    /\ registry_changed
    /\ UNCHANGED <<image, watchVars, helperVars, fsVars, unzipVars, init_pc,
                   boot_state, boot_log, net_calls, exe_at_start, main_loop,
                   yume_card_executable, runNable, observer, delayed_pc,
                   monVars, restart_pc, restart_out>>

\* /yumecard_notify subscribe, lines 1072-1088
CmdSubscribe(target) ==
    /\ disp.pc = "sending" => disp.mutations < MaxMutations
    /\ IF InList(target, notification_targets)
       THEN /\ reply' = [cmd |-> "subscribe", out |-> <<"already_subscribed">>]
            /\ notify_effects' = <<>>
            /\ UNCHANGED <<notification_targets, github_config, saved_targets,
                           config_json, disp>>
       ELSE /\ store_targets(Append(notification_targets, target))
            /\ save_and_project
            /\ reply' = [cmd |-> "subscribe", out |-> <<"subscribed">>]
            /\ registry_changed
    /\ UNCHANGED <<image, watchVars, helperVars, fsVars, unzipVars, init_pc,
                   boot_state, boot_log, net_calls, exe_at_start, main_loop,
                   yume_card_executable, runNable, observer, delayed_pc,
                   monVars, restart_pc, restart_out>>

\* _handle_unsubscribe that saves and projects before the test of line 1096
CmdUnsubscribe_PersistsWhenAbsent(target) ==
    /\ disp.pc = "sending" => disp.mutations < MaxMutations
    /\ IF ~InList(target, notification_targets)
       THEN /\ reply' = [cmd |-> "unsubscribe", out |-> <<"not_subscribed">>]
            /\ UNCHANGED <<notification_targets, github_config, disp>>
            /\ save_and_project
       ELSE /\ store_targets(ListRemove(notification_targets, target))
            /\ save_and_project
            /\ reply' = [cmd |-> "unsubscribe", out |-> <<"unsubscribed">>]
            /\ registry_changed
    /\ UNCHANGED <<image, watchVars, helperVars, fsVars, unzipVars, init_pc,
                   boot_state, boot_log, net_calls, exe_at_start, main_loop,
                   yume_card_executable, runNable, observer, delayed_pc,
                   monVars, restart_pc, restart_out>>

\* /yumecard_notify unsubscribe, lines 1090-1105
CmdUnsubscribe(target) ==
    /\ disp.pc = "sending" => disp.mutations < MaxMutations
    /\ IF ~InList(target, notification_targets)
       THEN /\ reply' = [cmd |-> "unsubscribe", out |-> <<"not_subscribed">>]
            /\ notify_effects' = <<>>
            /\ UNCHANGED <<notification_targets, github_config, saved_targets,
                           config_json, disp>>
       ELSE /\ store_targets(ListRemove(notification_targets, target))
            /\ save_and_project
            /\ reply' = [cmd |-> "unsubscribe", out |-> <<"unsubscribed">>]
            /\ registry_changed
    /\ UNCHANGED <<image, watchVars, helperVars, fsVars, unzipVars, init_pc,
                   boot_state, boot_log, net_calls, exe_at_start, main_loop,
                   yume_card_executable, runNable, observer, delayed_pc,
                   monVars, restart_pc, restart_out>>

\* the ready plugin with any duplicate-free list of targets and any image
InitDispatcher ==
    /\ PluginReady
    /\ now = 0
    /\ last_processed = [p \in {} |-> 0]
    /\ events = <<>>
    /\ github_config \in {"no_github", "no_targets", "full"}
    /\ notification_targets \in TargetLists
    /\ (github_config # "full" => notification_targets = <<>>)
    /\ saved_targets = notification_targets
    /\ image \in {"absent", "empty", "data", "unreadable"}
    /\ disp = NoDispatch
    /\ notify_effects = <<>>
    /\ HelpersIdle

NextDispatcher ==
    \/ CommitNotificationStart
    \/ GraceOver
    \/ TestNotificationStart
    \/ SendReturned
    \/ ImageWritten
    \/ \E target \in Dests : CmdSubscribe(target)
    \/ \E target \in Dests : CmdUnsubscribe(target)

SpecDispatcher == InitDispatcher /\ [][NextDispatcher]_vars

\* -------------------------------------------------------- specifications

\* the plugin once constructed, for every platform, every content of the
\* vendor directory and every file at the archive's path (beside an installed
\* executable: none, or what an interrupted download left)
InitBoot ==
    /\ platform_system \in Platforms
    /\ zip_file \in {NoFile, Unreadable} \cup Archives
    /\ dir_exists \in BOOLEAN
    /\ dir_files \in SUBSET FileNames
    /\ (~dir_exists => dir_files = {} /\ zip_file = NoFile)
    /\ (potential_executable_path \in dir_files =>
            zip_file \in {NoFile, PartialFile})
    /\ pre_files = dir_files
    /\ unzip_pc = "idle"
    /\ unzip_ok = FALSE
    /\ PluginConstructed
    /\ SideIdle
    /\ repository = << [isdict |-> TRUE, owner |-> "octocat", repo |-> "Hello-World"] >>

TaskStep ==
    \E t \in TaskIds :
        \/ TaskRun(t)
        \/ CheckDone(t)
        \/ SpacingDone(t)
        \/ IntervalDone(t)
        \/ CancelDelivered(t)

Command ==
    \/ CmdStart
    \/ CmdStop
    \/ CmdRestart
    \/ RestartResume
    \/ \E op \in {"list", "add", "check"} : CmdManage(op)

NextBoot ==
    \/ InitializeStart
    \/ DownloadDone
    \/ UnzipDone
    \/ DelayedStartFire
    \/ TaskStep
    \/ Command

SpecBoot == InitBoot /\ [][NextBoot]_vars

\* the plugin once constructed where YumeCard is installed already (or the
\* platform is not supported), for every repository list of the configuration;
\* Windows differs from Linux in the name of the executable only
Init ==
    /\ platform_system \in {"Linux", "Darwin"}
    /\ zip_file = NoFile
    /\ dir_exists = TRUE
    /\ dir_files = FileNames
    /\ pre_files = dir_files
    /\ unzip_pc = "idle"
    /\ unzip_ok = FALSE
    /\ PluginConstructed
    /\ SideIdle
    /\ repository \in RepoLists

Next ==
    \/ InitializeStart
    \/ DelayedStartFire
    \/ TaskStep
    \/ Command

Spec == Init /\ [][Next]_vars

\* ------------------------------------------------- the installer on its own

\* any platform, any file at the zip path, any content of the target
InitInstaller ==
    /\ platform_system \in Platforms
    /\ zip_file \in {NoFile, Unreadable} \cup Archives
    /\ dir_exists \in BOOLEAN
    /\ dir_files \in SUBSET FileNames
    /\ (~dir_exists => dir_files = {})
    /\ pre_files = dir_files
    /\ unzip_pc = "ready"
    /\ unzip_ok = FALSE
    /\ PluginConstructed
    /\ SideIdle
    /\ repository = <<>>

CallUnzip ==
    /\ UNCHANGED sideVars
    /\ unzip_pc = "ready"
    /\ \E ok \in BOOLEAN :
          /\ unzip_file_sync(ok)
          /\ unzip_ok' = ok
    /\ unzip_pc' = "done"
    /\ UNCHANGED <<platform_system, zip_file, bootVars, monVars, cmdVars>>

NextInstaller == CallUnzip

SpecInstaller == InitInstaller /\ [][NextInstaller]_vars

\* ------------------------------------------------- the projector on its own

\* entries of a repository list followed
MaxItems == 3

\* JSON text as a sequence of tokens: the four marks, string literals, and a
\* word that is no JSON
StringTokens == {"owner", "repo", "octocat", "Hello-World"}

\* the texts of the string entries of the model: four that json.loads
\* decodes (two spellings of one object, the empty object, and a string
\* literal) and six that it refuses
EncodedStrings ==
    { <<"{", "owner", ":", "octocat", ",", "repo", ":", "Hello-World", "}">>,
      <<"{", "repo", ":", "Hello-World", ",", "owner", ":", "octocat", "}">>,
      <<"{", "}">>,
      <<"octocat">>,
      <<>>,
      <<"oops">>,
      <<"{", "owner", ":", "octocat">>,
      <<"{", "owner", "octocat", "}">>,
      <<"{", "owner", ":", "octocat", ",", "}">>,
      <<"{", "}", "}">> }

EmptyDict == [k \in {} |-> ""]

\* the dict entries of the model
RepoDicts ==
    { [owner |-> "octocat", repo |-> "Hello-World"],
      [owner |-> "", repo |-> "Hello-World"] }

\* a value of the list with its Python type (dict, str, int): an entry as
\* isinstance sees it
RawItems ==
    { [kind |-> "dict", value |-> d] : d \in RepoDicts }
      \cup { [kind |-> "str", value |-> text] : text \in EncodedStrings }
      \cup { [kind |-> "int", value |-> <<"7">>] }

\* default_repo_list_from_schema_dicts, lines 271-278
default_repo_list_from_schema_dicts ==
    << [kind |-> "dict",
        value |-> [owner |-> "FengYing1314", repo |-> "astrbot_plugin_YumeCard",
                   branch |-> "main", lastsha |-> ""]] >>

JSONDecodeError == [ok |-> FALSE, kind |-> "none", value |-> EmptyDict, next |-> 0]

RECURSIVE parse_value(_, _), parse_members(_, _, _)

\* json.loads, the value that starts at token i: a string literal or an
\* object; kind is its Python type and next the token after it
parse_value(text, i) ==
    IF i > Len(text) THEN JSONDecodeError
    ELSE IF text[i] \in StringTokens
    THEN [ok |-> TRUE, kind |-> "str", value |-> text[i], next |-> i + 1]
    ELSE IF text[i] = "{"
    THEN IF i + 1 <= Len(text) /\ text[i + 1] = "}"
         THEN [ok |-> TRUE, kind |-> "dict", value |-> EmptyDict, next |-> i + 2]
         ELSE parse_members(text, i + 1, EmptyDict)
    ELSE JSONDecodeError

\* json.loads, the members of an object from token i on, d being the
\* members read so far: a key, a colon, a value, then a comma or the brace
parse_members(text, i, d) ==
    IF i + 1 > Len(text) \/ text[i] \notin StringTokens \/ text[i + 1] # ":"
    THEN JSONDecodeError
    ELSE LET v == parse_value(text, i + 2)
         IN  IF ~v.ok \/ v.next > Len(text) THEN JSONDecodeError
             ELSE IF text[v.next] = "}"
             THEN [ok |-> TRUE, kind |-> "dict",
                   value |-> DictSet(d, text[i], v.value), next |-> v.next + 1]
             ELSE IF text[v.next] = ","
             THEN parse_members(text, v.next + 1, DictSet(d, text[i], v.value))
             ELSE JSONDecodeError

\* json.loads(item): the whole text is one value
json_loads(text) ==
    LET v == parse_value(text, 1)
    IN  IF v.ok /\ v.next = Len(text) + 1 THEN v ELSE JSONDecodeError

RECURSIVE project_items_StopAtBadString(_, _, _)

\* the loop of lines 284-294 in which a string that does not decode ends it
project_items_StopAtBadString(raw, i, out) ==
    IF i > Len(raw) THEN out
    ELSE IF raw[i].kind = "str"
    THEN IF json_loads(raw[i].value).ok
         THEN project_items_StopAtBadString(raw, i + 1,
                    Append(out, [kind |-> json_loads(raw[i].value).kind,
                                 value |-> json_loads(raw[i].value).value]))
         ELSE out
    ELSE IF raw[i].kind = "dict"
    THEN project_items_StopAtBadString(raw, i + 1, Append(out, raw[i]))
    ELSE project_items_StopAtBadString(raw, i + 1, out)

RECURSIVE project_items(_, _, _)

\* _update_yumecard_config_file, lines 284-294: the loop over raw_repo_list
\* from entry i on, out being repo_list_of_dicts_for_yumecard so far
project_items(raw, i, out) ==
    IF i > Len(raw) THEN out
    ELSE IF raw[i].kind = "str"
    THEN IF json_loads(raw[i].value).ok
         THEN project_items(raw, i + 1,
                            Append(out, [kind |-> json_loads(raw[i].value).kind,
                                         value |-> json_loads(raw[i].value).value]))
         ELSE project_items(raw, i + 1, out)
    ELSE IF raw[i].kind = "dict"
    THEN project_items(raw, i + 1, Append(out, raw[i]))
    ELSE project_items(raw, i + 1, out)

\* lines 280-297: repo_list_of_dicts_for_yumecard for raw, the value of
\* "repository" in the "GitHub" entry; a missing value is read as the default
\* list by the get of line 280
repo_list_of_dicts_for_yumecard(raw) ==
    LET raw_repo == IF raw.present THEN raw
                    ELSE [present |-> TRUE, islist |-> TRUE,
                          items |-> default_repo_list_from_schema_dicts]
    IN  IF ~raw_repo.islist THEN default_repo_list_from_schema_dicts
        ELSE project_items(raw_repo.items, 1, <<>>)

\* a "GitHub" entry with any list of entries for "repository", with a value
\* that is no list or with none, or no "GitHub" entry (or an empty one)
InitProjector ==
    /\ PluginReady
    /\ now = 0
    /\ last_processed = [p \in {} |-> 0]
    /\ events = <<>>
    /\ notification_targets = <<>>
    /\ saved_targets = <<>>
    /\ image = "absent"
    /\ disp = NoDispatch
    /\ github_config \in {"no_github", "full"}
    /\ notify_effects = <<>>
    /\ fetch_log = <<>>
    /\ \/ raw_repo_list = [present |-> FALSE, islist |-> FALSE, items |-> <<>>]
       \/ raw_repo_list = [present |-> TRUE, islist |-> FALSE, items |-> <<>>]
       \/ \E items \in UNION { [1..n -> RawItems] : n \in 0..MaxItems } :
             raw_repo_list = [present |-> TRUE, islist |-> TRUE, items |-> items]
    /\ (github_config = "no_github" => ~raw_repo_list.present)
    /\ projection = NoProjection

\* _update_yumecard_config_file, lines 257-319; writable: the directory can
\* be made and the file written.  Without a "GitHub" entry, or with an empty
\* one, it returns False before anything is read or written (lines 264-269)
ProjectCall ==
    /\ ~projection.called
    /\ \E writable \in BOOLEAN :
          LET written == writable /\ github_config # "no_github"
          IN  /\ projection' =
                    [called |-> TRUE, returned |-> written, writable |-> writable,
                     repository |-> IF written
                                    THEN repo_list_of_dicts_for_yumecard(raw_repo_list)
                                    ELSE <<>>]
              /\ config_json' = IF written THEN "written" ELSE config_json
    /\ UNCHANGED <<fsVars, unzipVars, init_pc, boot_state, boot_log, net_calls,
                   exe_at_start, main_loop, yume_card_executable, runNable,
                   observer, delayed_pc, monVars, cmdVars, watchVars,
                   dispVars, fetch_log, raw_repo_list>>

NextProjector == ProjectCall

SpecProjector == InitProjector /\ [][NextProjector]_vars

\* --------------------------------------------------- the fetcher on its own

\* calls of download_file_async followed
MaxFetches == 2

\* any file, or none, at the destination; the directory may be missing
InitFetcher ==
    /\ platform_system = "Linux"
    /\ zip_file \in {NoFile, Unreadable} \cup Archives
    /\ dir_exists \in BOOLEAN
    /\ dir_files = {}
    /\ (~dir_exists => zip_file = NoFile)
    /\ pre_files = dir_files
    /\ unzip_pc = "idle"
    /\ unzip_ok = FALSE
    /\ PluginConstructed
    /\ SideIdle
    /\ repository = <<>>

\* one call of download_file_async with the same save_dir and file_name, and
\* what it returned, found, left and requested
FetchCall ==
    /\ Len(fetch_log) < MaxFetches
    /\ dir_exists' = TRUE
    /\ \E got \in BOOLEAN :
          /\ download_file_async(got)
          /\ fetch_log' = Append(fetch_log,
                [got |-> got, before |-> zip_file, after |-> zip_file',
                 requests |-> net_calls' - net_calls])
    /\ UNCHANGED <<platform_system, dir_files, pre_files, unzipVars, init_pc,
                   boot_state, boot_log, exe_at_start, main_loop,
                   yume_card_executable, runNable, observer, config_json,
                   delayed_pc, monVars, cmdVars, watchVars, dispVars,
                   raw_repo_list, projection>>

NextFetcher == FetchCall

SpecFetcher == InitFetcher /\ [][NextFetcher]_vars

\* ------------------------------------------------------------------ claims

LowerChar(c) ==
    CASE c = "A" -> "a" [] c = "B" -> "b" [] c = "C" -> "c"
      [] c = "D" -> "d" [] c = "E" -> "e" [] c = "F" -> "f"
      [] OTHER -> c

SameHexIgnoringCase(s, t) ==
    /\ Len(s) = Len(t)
    /\ \A i \in 1..Len(s) : LowerChar(s[i]) = LowerChar(t[i])

DigestAccepted ==
    \/ platform_system \notin {"Windows", "Linux"}
    \/ /\ zip_file \in Archives
       /\ SameHexIgnoringCase(zip_file.sha,
                              IF platform_system = "Windows"
                              THEN EXPECTED_SHA256_WINDOWS
                              ELSE EXPECTED_SHA256_LINUX)

\* C1: unzip_file_sync adds files to the target directory only if the
\* archive's digest equals the platform's expected digest ignoring case or the
\* platform has none; on a mismatch, or when the digest cannot be computed, it
\* returns False and the files under the target are those that were there.
C1_IntegrityGate ==
    unzip_pc = "done" =>
        /\ (dir_files # pre_files => DigestAccepted)
        /\ (unzip_ok => DigestAccepted)
        /\ (~DigestAccepted => ~unzip_ok /\ dir_files = pre_files)

C1_Witness ==
    /\ unzip_pc = "done"
    /\ platform_system = "Linux"
    /\ zip_file \in Archives
    /\ zip_file.zipstate = "ok"
    /\ zip_file.sha = <<"7", "a", "5", "4">>
    /\ ~ (zip_file.entries \subseteq pre_files)
    /\ ~unzip_ok
    /\ dir_files = pre_files

\* C2: when the executable expected on a supported platform exists as
\* initialize starts, initialize issues no network request and runs no
\* extraction, sets the executable path and ends with runNable true.
C2_BootstrapShortCircuit ==
    (init_pc = "done" /\ exe_at_start /\ Supported) =>
        /\ net_calls = 0
        /\ unzip_pc = "idle"
        /\ dir_files = pre_files
        /\ yume_card_executable = potential_executable_path
        /\ runNable
        /\ boot_state = "Ready"

C2_Witness ==
    /\ init_pc = "done"
    /\ exe_at_start
    /\ Supported
    /\ zip_file = NoFile
    /\ runNable

\* C3: once a bootstrap step has failed, in that state and every later one
\* runNable is false, the executable path is absent, the file watcher, the
\* delayed start and the polling task are not started, and no operation has
\* spawned a subprocess.
C3_FailedStaysNotReady ==
    /\ [](boot_state = "Failed" =>
            /\ ~runNable
            /\ yume_card_executable = None
            /\ observer = None
            /\ delayed_pc = "none"
            /\ \A t \in TaskIds : tasks[t].pc = "none"
            /\ monitoring_task = 0
            /\ ~spawned)
    /\ [][boot_state = "Failed" => boot_state' = "Failed"]_vars

C3_Witness ==
    /\ boot_state = "Failed"
    /\ unzip_pc = "done"
    /\ zip_file.zipstate = "ok"
    /\ potential_executable_path \in zip_file.entries
    /\ ~unzip_ok
    /\ reply = [cmd |-> "check", out |-> <<"not_ready">>]

FirstIndex(log, e) ==
    IF \E i \in 1..Len(log) : log[i] = e
    THEN CHOOSE i \in 1..Len(log) : log[i] = e /\ \A k \in 1..(i - 1) : log[k] # e
    ELSE 0

LastIndex(log, e) ==
    IF \E i \in 1..Len(log) : log[i] = e
    THEN CHOOSE i \in 1..Len(log) :
            log[i] = e /\ \A k \in (i + 1)..Len(log) : log[k] # e
    ELSE 0

\* C4: in initialize the config projector runs only after the bootstrap has
\* ended Ready or Failed, and the file watcher, the delayed start and the
\* polling task are started only after the config projector has returned.
C4_BootThenProjectThenStart ==
    LET outcome == IF FirstIndex(boot_log, "Ready") > 0
                   THEN FirstIndex(boot_log, "Ready")
                   ELSE FirstIndex(boot_log, "Failed")
        project == FirstIndex(boot_log, "project")
    IN  /\ project > 0 => (0 < outcome /\ outcome < project)
        /\ \A e \in {"watcher", "delayed", "scheduler"} :
              FirstIndex(boot_log, e) > 0 =>
                  (0 < LastIndex(boot_log, "project")
                     /\ LastIndex(boot_log, "project") < FirstIndex(boot_log, e))

C4_Witness ==
    /\ FirstIndex(boot_log, "scheduler") > 0
    /\ unzip_pc = "done"

\* the cycle of n checks the claim describes, each followed by the spacing
ChecksOf(log) == SelectSeq(log, LAMBDA e : e[1] = "check")

AllChecked == \A i \in 1..Len(repository) :
                 /\ repository[i].isdict
                 /\ repository[i].owner # ""
                 /\ repository[i].repo # ""

\* C7: over a repository list whose entries all have an owner and a name, a
\* cycle issues its checks one per repository in list order, each check that
\* is followed by anything is followed by the sleep of 10 seconds, no two
\* checks are in flight at once, and a finished cycle has issued exactly one
\* check per repository, whatever the checks returned.
C7_CycleChecksEachRepoOnce ==
    AllChecked =>
        /\ Cardinality({t \in TaskIds : tasks[t].pc = "inflight"}) <= 1
        /\ \A t \in TaskIds :
              LET log == tasks[t].log
                  checks == ChecksOf(log)
              IN  /\ Len(checks) <= Len(repository)
                  /\ \A k \in 1..Len(checks) : checks[k] = <<"check", k>>
                  /\ \A k \in 1..(Len(log) - 1) :
                        log[k][1] = "check" => log[k + 1] = <<"sleep", 10>>
                  /\ \A k \in 2..Len(log) :
                        log[k][1] = "check" => log[k - 1] = <<"sleep", 10>>
                  /\ tasks[t].pc = "inflight" => log[Len(log)][1] = "check"
                  /\ tasks[t].pc = "interval" => Len(checks) = Len(repository)

C7_Witness ==
    /\ AllChecked
    /\ Len(repository) = 2
    /\ \E t \in TaskIds :
          /\ tasks[t].pc = "interval"
          /\ Len(ChecksOf(tasks[t].log)) = 2
    /\ error_count = 1

\* C8: at most one start_monitoring task is active.
C8_AtMostOnePollLoop ==
    Cardinality({t \in TaskIds : TaskActive(t)}) <= 1

C8_Witness ==
    /\ \E t \in TaskIds : tasks[t].pc = "cancelled"
    /\ reply = [cmd |-> "restart", out |-> <<"stopped", "operation_failed">>]

\* what the status query reports as a running monitor (lines 664, 702)
MonitoringRunning ==
    \/ yumecard_running /\ ProcessLive
    \/ /\ monitoring_active
       /\ monitoring_task # 0
       /\ ~TaskDone(monitoring_task)

\* C9: when a restart command completes on a ready system whose monitor it
\* has stopped, monitoring is running again and check count, error count and
\* last-check timestamp are reset.
C9_RestartStartsFresh ==
    [][(RestartResume /\ runNable /\ restart_out = <<"stopped">>) =>
          (/\ MonitoringRunning'
           /\ check_count' = 0
           /\ error_count' = 0
           /\ last_check_time' = None)]_vars

\* C10: on a ready system with no long-running process the start command
\* starts the monitor, owns its process handle with running = true and
\* reports success.
C10_StartStartsMonitor ==
    [][(CmdStart /\ runNable /\ ~ProcessLive) =>
          (/\ yumecard_running'
           /\ ProcessLive'
           /\ reply' = [cmd |-> "start", out |-> <<"started">>])]_vars

\* C5: an image event is not handed to the dispatcher when an event for the
\* same path was handed off less than 5 seconds before it, and is handed off
\* when every earlier hand-off for its path (suppressed events do not count)
\* is more than 5 seconds old; events for other paths play no part.
C5_Debounce ==
    \A k \in 1..Len(events) :
        LET e == events[k]
            earlier == {j \in 1..(k - 1) :
                           events[j].path = e.path /\ events[j].handed}
        IN  (~e.dir /\ e.path.ext \in {".png", ".PNG"}) =>
                /\ (\E j \in earlier : e.at - events[j].at < 5) => ~e.handed
                /\ (\A j \in earlier : e.at - events[j].at > 5) => e.handed

C5_Witness ==
    /\ Len(events) = 3
    /\ events[1].path = events[2].path
    /\ events[2].path = events[3].path
    /\ events[1].handed
    /\ ~events[2].handed
    /\ events[3].handed
    /\ events[3].at - events[2].at < 5

StartWasLast ==
    /\ runNable
    /\ restart_pc = "idle"
    /\ reply.cmd \in {"start", "restart"}
    /\ reply.out[Len(reply.out)] # "not_ready"

C13_InFlightCheckCompletes ==
    [][\A t \in TaskIds :
          tasks[t].pc = "inflight" => tasks'[t].pc \in {"inflight", "spacing"}]_vars

NoDuplicates(l) == \A a, b \in 1..Len(l) : a # b => l[a] # l[b]

\* C14: a subscribe of a destination that is in the list, and an unsubscribe
\* of one that is not, leave the list as it is (members, order, size) and
\* call neither save_config nor the projector.
C14_NoOpLeavesRegistry ==
    [][\A d \in Dests :
          (\/ CmdSubscribe(d) /\ InList(d, notification_targets)
           \/ CmdUnsubscribe(d) /\ ~InList(d, notification_targets)) =>
              (/\ UNCHANGED <<notification_targets, github_config,
                              saved_targets, config_json>>
               /\ notify_effects' = <<>>)]_vars

C14_Witness ==
    /\ reply = [cmd |-> "unsubscribe", out |-> <<"not_subscribed">>]
    /\ notify_effects = <<>>
    /\ Len(notification_targets) = 2
    /\ saved_targets = notification_targets

\* C15: from a list without duplicates, no sequence of subscribe and
\* unsubscribe commands, also while a fan-out is sending, leads to a list
\* that holds a destination twice.
C15_NoDuplicateTargets == NoDuplicates(notification_targets)

C15_Witness ==
    /\ disp.pc = "sending"
    /\ disp.mutations = 1
    /\ reply = [cmd |-> "subscribe", out |-> <<"subscribed">>]
    /\ Len(notification_targets) = 3

\* C16: whatever the host configuration holds at first, after a subscribe
\* that reports success the destination is in the list that list and the
\* fan-out read, it stays there until it is unsubscribed, and after an
\* unsubscribe that reports success it is not in the list.
C16_SubscribedIsMember ==
    [][\A d \in Dests :
          /\ (CmdSubscribe(d) /\ reply'.out = <<"subscribed">>) =>
                InList(d, notification_targets')
          /\ (CmdUnsubscribe(d) /\ reply'.out = <<"unsubscribed">>) =>
                ~InList(d, notification_targets')
          /\ (InList(d, notification_targets) /\ ~CmdUnsubscribe(d)) =>
                InList(d, notification_targets')]_vars

\* C17 as the specification states it: two calls of download_file_async for
\* the same destination make exactly one network transfer, and the second
\* returns the path without a request and without changing the file.
C17_TwoCallsOneTransfer ==
    Len(fetch_log) >= 2 =>
        /\ fetch_log[1].requests + fetch_log[2].requests = 1
        /\ fetch_log[2].got
        /\ fetch_log[2].requests = 0
        /\ fetch_log[2].after = fetch_log[2].before

\* C17, amended: a call that finds the destination file returns the path
\* with no request and leaves the file as it is; hence a call that follows
\* one that returned a path makes no transfer, and the two together make one
\* transfer when the file was missing before the first and none otherwise.
C17_CallAfterSuccessSkips ==
    \A k \in 1..Len(fetch_log) :
        LET call == fetch_log[k]
        IN  /\ call.before # NoFile =>
                  (call.got /\ call.requests = 0 /\ call.after = call.before)
            /\ (k > 1 /\ fetch_log[k - 1].got) =>
                  /\ call.got
                  /\ call.requests = 0
                  /\ call.after = call.before
                  /\ fetch_log[k - 1].requests =
                        IF fetch_log[k - 1].before = NoFile THEN 1 ELSE 0

C17_Witness ==
    /\ Len(fetch_log) = 2
    /\ fetch_log[1].before = NoFile
    /\ fetch_log[1].got
    /\ fetch_log[1].requests = 1
    /\ fetch_log[2].got
    /\ fetch_log[2].requests = 0
    /\ net_calls = 1

RECURSIVE json_members(_, _, _)

\* the members of object d written in the order of keys, from key i on
json_members(d, keys, i) ==
    IF i > Len(keys) THEN <<>>
    ELSE <<keys[i], ":", d[keys[i]]>>
         \o (IF i < Len(keys) THEN <<",">> ELSE <<>>)
         \o json_members(d, keys, i + 1)

\* the values a text can spell: the objects with string members over the keys
\* owner and repo, and the strings
EncodableObjects ==
    { [kind |-> "dict", value |-> d] :
        d \in UNION { [ks -> StringTokens] : ks \in SUBSET {"owner", "repo"} } }
      \cup { [kind |-> "str", value |-> literal] : literal \in StringTokens }

KeyOrders(d) ==
    { keys \in UNION { [1..n -> DOMAIN d] : n \in 0..2 } :
        /\ Len(keys) = Cardinality(DOMAIN d)
        /\ \A a, b \in 1..Len(keys) : a # b => keys[a] # keys[b] }

\* text is a JSON spelling of the value d
Encodes(text, d) ==
    IF d.kind = "str" THEN text = <<d.value>>
    ELSE \E keys \in KeyOrders(d.value) :
            text = <<"{">> \o json_members(d.value, keys, 1) \o <<"}">>

Decodable(text) == \E d \in EncodableObjects : Encodes(text, d)

Decoded(text) == CHOOSE d \in EncodableObjects : Encodes(text, d)

\* the entries of raw that are kept: dicts and strings that spell a value
Kept(raw) ==
    SelectSeq(raw, LAMBDA item :
        \/ item.kind = "dict"
        \/ item.kind = "str" /\ Decodable(item.value))

\* C18: the list the projector writes is the configured list in its order
\* with each dict kept, each string that decodes replaced by what it decodes
\* to, and every other entry dropped; a dropped entry does not make the
\* projection fail, which returns True whenever the file can be written.
C18_ProjectedRepositoryList ==
    (projection.called /\ raw_repo_list.present /\ raw_repo_list.islist) =>
        /\ projection.returned = projection.writable
        /\ projection.writable =>
              LET kept == Kept(raw_repo_list.items)
                  out == projection.repository
              IN  /\ Len(out) = Len(kept)
                  /\ \A k \in 1..Len(kept) :
                        LET want == IF kept[k].kind = "dict" THEN kept[k]
                                    ELSE Decoded(kept[k].value)
                        IN  /\ out[k].kind = want.kind
                            /\ out[k].value = want.value

C18_Witness ==
    /\ projection.called
    /\ projection.returned
    /\ raw_repo_list.islist
    /\ Len(raw_repo_list.items) = 3
    /\ raw_repo_list.items[1].kind = "str"
    /\ ~Decodable(raw_repo_list.items[1].value)
    /\ raw_repo_list.items[2].kind = "dict"
    /\ raw_repo_list.items[3].kind = "str"
    /\ Len(projection.repository) = 2
    /\ projection.repository[2].kind = "dict"
    /\ projection.repository[1].value = projection.repository[2].value

\* C19: on a platform for which no digest is defined, unzip_file_sync does
\* not verify the archive: an archive that opens and extracts is extracted
\* in full and True is returned, whatever its digest.
C19_NoDigestPlatformExtracts ==
    (/\ unzip_pc = "done"
     /\ platform_system \notin {"Windows", "Linux"}
     /\ zip_file \in Archives
     /\ zip_file.zipstate = "ok") =>
        /\ unzip_ok
        /\ dir_files = pre_files \cup zip_file.entries

C19_Witness ==
    /\ unzip_pc = "done"
    /\ platform_system = "Darwin"
    /\ zip_file \in Archives
    /\ zip_file.zipstate = "ok"
    /\ zip_file.sha = <<"0", "0", "0", "0">>
    /\ pre_files = {}
    /\ unzip_ok
    /\ dir_files = FileNames

\* task t begins a cycle in this step
BeginsCycle(t) ==
    /\ tasks[t].pc \in {"created", "interval"}
    /\ tasks'[t].pc \in {"inflight", "spacing"}

\* the checks task t issues in this step, and those of its checks that are
\* found to have failed in it
ChecksIssued(t) ==
    IF BeginsCycle(t) THEN Len(ChecksOf(tasks'[t].log))
    ELSE Len(ChecksOf(tasks'[t].log)) - Len(ChecksOf(tasks[t].log))

ChecksFailed(t) ==
    IF BeginsCycle(t) THEN Cardinality(tasks'[t].failed)
    ELSE Cardinality(tasks'[t].failed \ tasks[t].failed)

\* C20: in every step the check counter grows by the number of checks that
\* are issued in it and the error counter by the number of checks that fail
\* in it, so that each counter equals the number it counts; only the reset
\* of a restart makes a counter smaller.
C20_CountersCountChecks ==
    [][IF restart_pc = "sleeping" /\ restart_pc' = "idle"
       THEN check_count' = 0 /\ error_count' = 0
       ELSE LET acting == {t \in TaskIds : tasks'[t] # tasks[t]}
            IN  IF acting = {}
                THEN UNCHANGED <<check_count, error_count>>
                ELSE \A t \in acting :
                        /\ check_count' = check_count + ChecksIssued(t)
                        /\ error_count' = error_count + ChecksFailed(t)]_vars

\* C21: on a platform other than Windows, the step in which the executable is
\* invoked for the first time, by the polling task or by a list, add or check
\* command, comes after or together with a call of chmod on the executable.
C21_ChmodBeforeFirstInvocation ==
    [][(~spawned /\ spawned' /\ platform_system # "Windows") => chmod_called']_vars

\* C22: send_commit_notification returns with no delivery attempted when the
\* image is missing at its entry, and when after its sleep of 2 seconds the
\* image is empty or unreadable or no destination is registered: the coroutine
\* is done at once, nothing was sent and nothing is left pending.
C22_NothingSentWithoutArtifactOrTarget ==
    [][/\ (/\ disp.pc \in {"idle", "done"}
           /\ disp' # disp
           /\ disp'.kind = "commit"
           /\ image = "absent")
          => (disp'.pc = "done" /\ disp'.attempts = <<>>)
       /\ (/\ disp.pc = "grace"
           /\ disp' # disp
           /\ (image # "data" \/ Len(notification_targets) = 0))
          => (disp'.pc = "done" /\ disp'.attempts = <<>>)]_vars

\* the image was there at the entry and is still empty after the 2 seconds,
\* with destinations registered: the coroutine has returned
C22_Witness ==
    /\ disp.pc = "done"
    /\ disp.kind = "commit"
    /\ disp.report.text = "empty"
    /\ image = "empty"
    /\ Len(notification_targets) > 0
    /\ disp.attempts = <<>>

\* C23: when unzip_file_sync finds that the digest of the archive is not the
\* expected one, the target is what it was before the call: the directory
\* exists only if it existed and holds the same files.
C23_MismatchLeavesTargetAsItWas ==
    [][(/\ unzip_pc = "ready"
        /\ unzip_pc' = "done"
        /\ zip_file \in Archives
        /\ ~DigestAccepted)
       => (dir_exists' = dir_exists /\ dir_files' = dir_files)]_vars

\* C24: a run of initialize on a supported platform that finds no executable
\* and, at the archive's path, the partial file of a failed download, requests
\* nothing and goes straight to unzip_file_sync; that call refuses the file,
\* the run ends Failed and not ready, and it leaves the file and the directory
\* as they were, so that every later run does the same.
C24_PartialFileIsTakenForComplete ==
    [][/\ (/\ init_pc = "new"
           /\ init_pc' # "new"
           /\ Supported
           /\ potential_executable_path \notin dir_files
           /\ zip_file = PartialFile)
          => (/\ init_pc' = "unzip"
              /\ boot_state' = "Extract"
              /\ net_calls' = net_calls
              /\ zip_file' = zip_file)
       /\ (/\ init_pc = "unzip"
           /\ init_pc' # "unzip"
           /\ zip_file = PartialFile)
          => (/\ init_pc' = "done"
              /\ boot_state' = "Failed"
              /\ ~runNable'
              /\ ~unzip_ok'
              /\ net_calls' = net_calls
              /\ zip_file' = zip_file
              /\ dir_files' = dir_files)]_vars

\* such a run has ended: nothing was requested, the installer was called
C24_Witness ==
    /\ init_pc = "done"
    /\ Supported
    /\ ~exe_at_start
    /\ zip_file = PartialFile
    /\ net_calls = 0
    /\ unzip_pc = "done"
    /\ boot_state = "Failed"

\* C25: every element of the repository list the projector writes is a
\* repository object, a dict with an owner and a repo: whatever the entries of
\* the configured list are, a string adds an element only when it decodes to
\* such an object and an entry of another type adds none.
C25_EveryElementIsRepositoryObject ==
    projection.returned =>
        \A k \in 1..Len(projection.repository) :
            /\ projection.repository[k].kind = "dict"
            /\ {"owner", "repo"} \subseteq DOMAIN projection.repository[k].value

\* C26: whenever the file can be written, a configuration whose repository
\* value is missing or is no list makes the projector write the default list,
\* one entry, and return True; a value that is a list, empty or with every
\* entry dropped, never has the default entry put in its place.
C26_DefaultOnlyWithoutList ==
    (projection.called /\ projection.writable) =>
        IF raw_repo_list.present /\ raw_repo_list.islist
        THEN /\ Len(projection.repository) <= Len(raw_repo_list.items)
             /\ \A k \in 1..Len(projection.repository) :
                   projection.repository[k].kind = "dict" =>
                       projection.repository[k].value
                           # default_repo_list_from_schema_dicts[1].value
        ELSE /\ projection.returned
             /\ config_json = "written"
             /\ projection.repository = default_repo_list_from_schema_dicts

\* C27: a subscribe or unsubscribe that changes the list of destinations has,
\* when it yields its success message, called save_config and after it the
\* projector, and what is saved is the changed list; one that answers that
\* the conversation is subscribed already, or is not subscribed, has called
\* neither.
C27_ChangeIsSavedThenProjected ==
    [][/\ notification_targets' # notification_targets =>
             /\ reply'.cmd \in {"subscribe", "unsubscribe"}
             /\ reply'.out \in {<<"subscribed">>, <<"unsubscribed">>}
             /\ notify_effects' = <<"save_config", "project">>
             /\ saved_targets' = notification_targets'
       /\ (/\ reply'.cmd \in {"subscribe", "unsubscribe"}
           /\ reply'.out \in {<<"already_subscribed">>, <<"not_subscribed">>})
          => notify_effects' = <<>>]_vars

\* a subscribe has added a third destination and was saved and projected
C27_Witness ==
    /\ reply = [cmd |-> "subscribe", out |-> <<"subscribed">>]
    /\ Len(notification_targets) = 3
    /\ Len(saved_targets) = 3
    /\ notify_effects = <<"save_config", "project">>
    /\ config_json = "written"

\* C28: once a stop has been processed while the polling task is inside a
\* cycle (or in the sleep after one), the task issues no further check and
\* begins no further cycle, whichever await it was suspended in.
C28_StopEndsCycleAtOnce ==
    [][\A t \in TaskIds :
          (~monitoring_active /\ tasks[t].pc \in {"inflight", "spacing", "interval"})
          => (/\ Len(ChecksOf(tasks'[t].log)) <= Len(ChecksOf(tasks[t].log))
              /\ ~BeginsCycle(t)
              /\ check_count' <= check_count)]_vars

\* stopped after the first of two repositories: the task has ended with the
\* second one unchecked
C28_Witness ==
    /\ ~monitoring_active
    /\ Len(repository) = 2
    /\ \A j \in 1..2 : repository[j].isdict /\ repository[j].owner # ""
    /\ \E t \in TaskIds :
          /\ tasks[t].pc = "cancelled"
          /\ tasks[t].idx = 1
          /\ Len(ChecksOf(tasks[t].log)) = 1
          /\ tasks[t].log[Len(tasks[t].log)][1] = "sleep"

RECURSIVE SleepTotal(_, _)

\* the seconds slept by the entries of log up to entry n
SleepTotal(log, n) ==
    IF n = 0 THEN 0
    ELSE SleepTotal(log, n - 1) + (IF log[n][1] = "sleep" THEN log[n][2] ELSE 0)

\* C29: the sleep that ends a cycle lasts the configured interval less the
\* time the cycle has spent in its sleeps between repositories (the checks
\* taking no time at all), so that the next cycle starts one interval after
\* this one started.
C29_IntervalSleepIsTheRemainder ==
    \A t \in TaskIds :
        tasks[t].pc = "interval" =>
            LET log == tasks[t].log
            IN  log[Len(log)] =
                   <<"sleep", refresh_interval_seconds - SleepTotal(log, Len(log) - 1)>>

\* C30: a finished cycle has checked, once each, all the entries of the
\* repository list that name an owner and a repository, those written as an
\* encoded string like those written as an object.
C30_EncodedStringsAreChecked ==
    \A t \in TaskIds :
        tasks[t].pc = "interval" =>
            \A j \in 1..Len(repository) :
                (repository[j].owner # "" /\ repository[j].repo # "") =>
                    Cardinality({k \in 1..Len(tasks[t].log) :
                                    tasks[t].log[k] = <<"check", j>>}) = 1

\* C31: while the last command that has reported is a stop, given at any
\* time after initialize, also before the delayed start has fired, the
\* polling task issues no check.
C31_NoCheckAfterStop ==
    [][reply.cmd = "stop" => \A t \in TaskIds : ChecksIssued(t) = 0]_vars

\* C32: when a fan-out during which the list of destinations was changed by
\* one subscribe or unsubscribe ends, every destination that was in the list
\* from its start to its end has been attempted exactly once, and the total
\* it reports is the number of its attempts.
C32_FanOutUnderRegistryChange ==
    [][(/\ disp.pc = "sending"
        /\ disp'.pc = "done"
        /\ disp'.mutations = 1)
       => (/\ \A d \in Dests :
                (InList(d, disp'.targets0) /\ InList(d, notification_targets')) =>
                    Cardinality({k \in 1..Len(disp'.attempts) :
                                    disp'.attempts[k].target = d}) = 1
           /\ disp'.report.text = "count" =>
                 disp'.report.total = Len(disp'.attempts))]_vars

\* C33: the error counter is never negative and never above the check
\* counter, so that (check_count - error_count) / check_count lies between 0
\* and 1.
C33_ErrorsWithinChecks ==
    0 <= error_count /\ error_count <= check_count

====
